---- MODULE Spec2Model ----
(***************************************************************************)
(* CPU process scheduling simulator: the Process entity, the seven         *)
(* scheduler policies derived from BaseScheduler, the scheduler factory    *)
(* and the runSimulation driver loop.                                      *)
(*                                                                         *)
(* A process is identified by its position in the caller's input list.     *)
(* `proc` is the heap of Process objects, `processes` the scheduler's own  *)
(* (possibly re-ordered) copy of the list, holding process identities.     *)
(***************************************************************************)
EXTENDS Integers, Sequences, FiniteSets, TLC

\* ---------------------------------------------------------------- bounds
MaxProcs == 2
MaxArrival == 2
MaxBurst == 2
MaxPriority == 1
MaxQuantum == 2
MaxIterations == 16
MaxCallTime == 2
MaxStamps == 1
MaxConfigProcs == 1
MaxSteps == 5
MaxTimers == 2

\* ------------------------------------------------------------- constants
Null == 0
Unset == 0 - 1
DefaultQuantum == 2

Policies == {"FCFS", "SJF", "SRTF", "RR", "PRIORITY", "PRIORITY_P", "RANDOM"}

VARIABLES
  policy,              \* SchedulerType handed to the factory
  timeQuantum,         \* RoundRobinScheduler.timeQuantum
  proc,                \* process id -> Process object
  processes,           \* BaseScheduler.processes (sequence of ids)
  readyQueue,          \* BaseScheduler.readyQueue
  currentProcess,      \* BaseScheduler.currentProcess (Null when free)
  completed,           \* BaseScheduler.completed
  time,                \* BaseScheduler.time
  timeSliceRemaining,  \* RoundRobinScheduler.timeSliceRemaining
  iterations,          \* runSimulation: iterations
  allCompleted,        \* runSimulation: allCompleted (last tick() result)
  returned,            \* runSimulation has returned
  result,              \* value returned by runSimulation
  ran,                 \* history: process whose execute() took effect in the last tick
  dispatched,          \* history: processes that entered RUNNING in the last tick
  preempted,           \* history: process moved RUNNING -> READY in the last tick
  queueAtExec,         \* history: READY queue at the moment of execute() in the last tick
  expiredAlone,        \* history: last tick took RR's "no other process" branch
  expiredBusy,         \* history: last tick took RR's rotate branch
  runLength,           \* history: consecutive ticks in which `ran` executed
  aloneSince,          \* history: latest quantum expiry of `ran` found the queue empty
  candidates,          \* history: READY queue each entry of `dispatched` was taken from
  lastCall,            \* history: Process method called last by a direct caller
  trace,               \* history: the state changes of the last tick, in order
  entryWait,           \* history: process id -> waitingTime at its first entry into RUNNING
  configQuantum,       \* config.timeQuantum handed to the factory (Unset when missing)
  request,             \* body of the HTTP request / data of the start-simulation event
  simulation,          \* SocketService.simulations entry of the client
  emitted,             \* messages the last handler sent to the client, in order
  ticks,               \* history: number of tick() calls made on the scheduler
  connected,           \* the client's socket is connected
  timers,              \* active setInterval timers of the client, by the handler that set them
  handled              \* history: the socket event or timer callback handled last

vars == <<policy, timeQuantum, proc, processes, readyQueue, currentProcess,
          completed, time, timeSliceRemaining, iterations, allCompleted,
          returned, result, ran, dispatched, preempted, queueAtExec,
          expiredAlone, expiredBusy, runLength, aloneSince, candidates,
          lastCall, trace, entryWait, configQuantum, request, simulation,
          emitted, ticks, connected, timers, handled>>

\* ======================================================== Process entity
\* new Process(config)
Process(config) ==
  [ arrivalTime       |-> config.arrivalTime,
    burstTime         |-> config.burstTime,
    priority          |-> config.priority,
    state             |-> "NEW",
    remainingTime     |-> config.burstTime,
    waitingTime       |-> 0,
    turnaroundTime    |-> 0,
    responseTime      |-> Unset,
    completionTime    |-> Unset,
    firstRun          |-> TRUE,
    runningTimestamps |-> << >> ]

\* Process.updateState(newState, currentTime?)  (currentTime = Unset when omitted)
updateState(p, newState, currentTime) ==
  [ p EXCEPT
      !.runningTimestamps =
         IF newState = "RUNNING" /\ p.state # "RUNNING" /\ currentTime # Unset
           THEN Append(@, currentTime) ELSE @,
      !.state = newState ]

Min(a, b) == IF a <= b THEN a ELSE b

execute_everyRun(p, quantum) ==
  IF p.state = "RUNNING"
    THEN LET rem == p.remainingTime - Min(quantum, p.remainingTime)
         IN [ p EXCEPT
                !.responseTime  = p.waitingTime,
                !.firstRun      = FALSE,
                !.remainingTime = rem,
                !.state         = IF rem <= 0 THEN "TERMINATED" ELSE @ ]
    ELSE p

execute_noMin(p, quantum) ==
  IF p.state = "RUNNING"
    THEN LET rem == p.remainingTime - quantum
         IN [ p EXCEPT
                !.responseTime  = IF p.firstRun THEN p.waitingTime ELSE @,
                !.firstRun      = FALSE,
                !.remainingTime = rem,
                !.state         = IF rem <= 0 THEN "TERMINATED" ELSE @ ]
    ELSE p

\* Process.execute(timeQuantum = 1): the object after the call
execute(p, quantum) ==
  IF p.state = "RUNNING"
    THEN LET rem == p.remainingTime - Min(quantum, p.remainingTime)
         IN [ p EXCEPT
                !.responseTime  = IF p.firstRun THEN p.waitingTime ELSE @,
                !.firstRun      = FALSE,
                !.remainingTime = rem,
                !.state         = IF rem <= 0 THEN "TERMINATED" ELSE @ ]
    ELSE p

\* Process.execute(timeQuantum = 1): the value returned
executeReturns(p, quantum) ==
  p.state = "RUNNING" /\ p.remainingTime - Min(quantum, p.remainingTime) <= 0

\* Process.updateWaitingTime(time)
updateWaitingTime(p, t) ==
  IF p.state = "READY" \/ p.state = "WAITING"
    THEN [ p EXCEPT !.waitingTime = @ + t ]
    ELSE p

complete_early(p, currentTime) ==
  [ p EXCEPT !.state          = "TERMINATED",
             !.completionTime = currentTime - 1,
             !.turnaroundTime = (currentTime - 1) - p.arrivalTime ]

\* Process.complete(currentTime)
complete(p, currentTime) ==
  [ p EXCEPT !.state          = "TERMINATED",
             !.completionTime = currentTime,
             !.turnaroundTime = currentTime - p.arrivalTime ]

\* ====================================================== sequence helpers
\* Array.prototype.splice(i, 1) on a 1-based sequence
RemoveAt(q, i) == SubSeq(q, 1, i - 1) \o SubSeq(q, i + 1, Len(q))

\* Array.prototype.sort(compare): a stable sort; compare[a, b] < 0 puts a first
StableSort(q, compare) ==
  LET rank(i) == 1 + Cardinality({ j \in 1..Len(q) :
                       \/ compare[q[j], q[i]] < 0
                       \/ compare[q[j], q[i]] = 0 /\ j < i })
  IN [ k \in 1..Len(q) |-> q[CHOOSE i \in 1..Len(q) : rank(i) = k] ]

Range(q) == { q[i] : i \in 1..Len(q) }

\* ================================================ scheduler (one instance)
\* the scheduler object as a value, with the per-tick history cleared
Self ==
  [ proc               |-> proc,
    timeQuantum        |-> timeQuantum,
    readyQueue         |-> readyQueue,
    currentProcess     |-> currentProcess,
    completed          |-> completed,
    time               |-> time,
    timeSliceRemaining |-> timeSliceRemaining,
    ran                |-> Null,
    dispatched         |-> << >>,
    candidates         |-> << >>,
    trace              |-> << >>,
    preempted          |-> Null,
    queueAtExec        |-> << >>,
    expiredAlone       |-> FALSE,
    expiredBusy        |-> FALSE ]

\* the scheduler after one of the Process methods left process p as q; a
\* change of p's state is entered in the history `trace`
setProcess(s, p, q) ==
  [ s EXCEPT !.proc[p] = q,
             !.trace   = IF q.state # s.proc[p].state
                           THEN Append(@, [ id          |-> p,
                                            from        |-> s.proc[p].state,
                                            to          |-> q.state,
                                            waitingTime |-> q.waitingTime ])
                           ELSE @ ]

\* BaseScheduler.checkArrivals: the loop from position i of this.processes
RECURSIVE arrivalsFrom(_, _)
arrivalsFrom(s, i) ==
  IF i > Len(processes) THEN s
  ELSE LET p == processes[i]
       IN IF s.proc[p].state = "NEW" /\ s.proc[p].arrivalTime <= s.time
            THEN arrivalsFrom([ setProcess(s, p, updateState(s.proc[p], "READY", Unset))
                                  EXCEPT !.readyQueue = Append(@, p) ], i + 1)
            ELSE arrivalsFrom(s, i + 1)

\* BaseScheduler.checkArrivals
checkArrivals(s) == arrivalsFrom(s, 1)

\* BaseScheduler.updateWaitingTimes: the loop from position i of the queue
RECURSIVE waitFrom(_, _)
waitFrom(s, i) ==
  IF i > Len(s.readyQueue) THEN s
  ELSE waitFrom([ s EXCEPT !.proc[s.readyQueue[i]] = updateWaitingTime(@, 1) ], i + 1)

updateWaitingTimes_arrivedBefore(s) ==
  [ s EXCEPT !.proc = [ p \in DOMAIN s.proc |->
       IF p \in Range(s.readyQueue) /\ s.proc[p].arrivalTime < s.time
         THEN updateWaitingTime(s.proc[p], 1) ELSE s.proc[p] ] ]

\* BaseScheduler.updateWaitingTimes
updateWaitingTimes(s) == waitFrom(s, 1)

\* this.currentProcess = this.readyQueue.shift(); updateState(RUNNING[, time])
startNext(s, stamp) ==
  LET p == Head(s.readyQueue)
  IN [ setProcess(s, p, updateState(s.proc[p], "RUNNING", stamp))
         EXCEPT !.currentProcess = p,
                !.readyQueue     = Tail(@),
                !.dispatched     = Append(@, p),
                !.candidates     = Append(@, s.readyQueue) ]

runCurrent_twoUnits(s) ==
  LET p == s.currentProcess
  IN [ setProcess(s, p, execute(s.proc[p], 2))
         EXCEPT !.ran         = IF s.proc[p].state = "RUNNING" THEN p ELSE Null,
                !.queueAtExec = s.readyQueue ]

\* const isCompleted = this.currentProcess.execute(): the scheduler afterwards
runCurrent(s) ==
  LET p == s.currentProcess
  IN [ setProcess(s, p, execute(s.proc[p], 1))
         EXCEPT !.ran         = IF s.proc[p].state = "RUNNING" THEN p ELSE Null,
                !.queueAtExec = s.readyQueue ]

\* const isCompleted = this.currentProcess.execute(): the value
isCompleted(s) == executeReturns(s.proc[s.currentProcess], 1)

\* complete(this.time); completed.push(currentProcess); currentProcess = null
finishCurrent(s) ==
  LET p == s.currentProcess
  IN [ setProcess(s, p, complete(s.proc[p], s.time))
         EXCEPT !.completed      = Append(@, p),
                !.currentProcess = Null ]

tickReturns_nonEmpty(s) ==
  Len(s.completed) = Len(processes) /\ Len(processes) > 0

\* return this.completed.length === this.processes.length
tickReturns(s) == Len(s.completed) = Len(processes)

advance_untilCompleted(s) ==
  IF tickReturns(s) THEN s ELSE [ s EXCEPT !.time = @ + 1 ]

\* this.time++, the first statement of every tick()
advance(s) == [ s EXCEPT !.time = @ + 1 ]

\* ------------------------------------------------------------------ FCFS
sortByArrival_none(ps, ids) == ids

\* [...processes].sort((a, b) => a.arrivalTime - b.arrivalTime)
sortByArrival(ps, ids) ==
  LET compare == [ a \in DOMAIN ps, b \in DOMAIN ps |->
                    ps[a].arrivalTime - ps[b].arrivalTime ]
  IN StableSort(ids, compare)

tickFCFS_dispatchAlone(s0) ==
  LET s1 == advance(s0)
      s2 == checkArrivals(s1)
      s3 == IF s2.currentProcess = Null /\ Len(s2.readyQueue) > 0
              THEN startNext(s2, Unset) ELSE s2
      s4 == updateWaitingTimes(s3)
  IN IF s2.currentProcess # Null
       THEN IF isCompleted(s4)
              THEN LET f == finishCurrent(runCurrent(s4))
                   IN IF Len(f.readyQueue) > 0 THEN startNext(f, Unset) ELSE f
              ELSE runCurrent(s4)
       ELSE s4

\* FCFSScheduler.tick
tickFCFS(s0) ==
  LET s1 == advance(s0)
      s2 == checkArrivals(s1)
      s3 == IF s2.currentProcess = Null /\ Len(s2.readyQueue) > 0
              THEN startNext(s2, Unset) ELSE s2
      s4 == updateWaitingTimes(s3)
  IN IF s4.currentProcess # Null
       THEN IF isCompleted(s4)
              THEN LET f == finishCurrent(runCurrent(s4))
                   IN IF Len(f.readyQueue) > 0 THEN startNext(f, Unset) ELSE f
              ELSE runCurrent(s4)
       ELSE s4

\* ------------------------------------------------------------------- SJF
sortByRemaining_noTieBreak(s) ==
  LET compare == [ a \in DOMAIN s.proc, b \in DOMAIN s.proc |->
        s.proc[a].remainingTime - s.proc[b].remainingTime ]
  IN [ s EXCEPT !.readyQueue = StableSort(@, compare) ]

\* SJFScheduler.sortReadyQueue / SRTFScheduler.sortReadyQueue
sortByRemaining(s) ==
  LET compare == [ a \in DOMAIN s.proc, b \in DOMAIN s.proc |->
        IF s.proc[a].remainingTime - s.proc[b].remainingTime = 0
          THEN s.proc[a].arrivalTime - s.proc[b].arrivalTime
          ELSE s.proc[a].remainingTime - s.proc[b].remainingTime ]
  IN [ s EXCEPT !.readyQueue = StableSort(@, compare) ]

\* SJFScheduler.tick
tickSJF(s0) ==
  LET s1 == advance(s0)
      s2 == checkArrivals(s1)
      s3 == IF s2.currentProcess = Null /\ Len(s2.readyQueue) > 0
              THEN startNext(sortByRemaining(s2), s2.time) ELSE s2
      s4 == updateWaitingTimes(s3)
  IN IF s4.currentProcess # Null
       THEN IF isCompleted(s4)
              THEN LET f == finishCurrent(runCurrent(s4))
                   IN IF Len(f.readyQueue) > 0
                        THEN startNext(sortByRemaining(f), f.time) ELSE f
              ELSE runCurrent(s4)
       ELSE s4

\* -------------------------------------------------------------- PRIORITY
sortByPriority_byArrival(s) ==
  LET compare == [ a \in DOMAIN s.proc, b \in DOMAIN s.proc |->
        s.proc[a].arrivalTime - s.proc[b].arrivalTime ]
  IN [ s EXCEPT !.readyQueue = StableSort(@, compare) ]

\* PriorityScheduler.sortReadyQueue / PriorityPreemptiveScheduler.sortReadyQueue
sortByPriority(s) ==
  LET compare == [ a \in DOMAIN s.proc, b \in DOMAIN s.proc |->
        IF s.proc[a].priority - s.proc[b].priority = 0
          THEN s.proc[a].arrivalTime - s.proc[b].arrivalTime
          ELSE s.proc[a].priority - s.proc[b].priority ]
  IN [ s EXCEPT !.readyQueue = StableSort(@, compare) ]

\* PriorityScheduler.tick
tickPriority(s0) ==
  LET s1 == advance(s0)
      s2 == checkArrivals(s1)
      s3 == IF s2.currentProcess = Null /\ Len(s2.readyQueue) > 0
              THEN startNext(sortByPriority(s2), Unset) ELSE s2
      s4 == updateWaitingTimes(s3)
  IN IF s4.currentProcess # Null
       THEN IF isCompleted(s4)
              THEN LET f == finishCurrent(runCurrent(s4))
                   IN IF Len(f.readyQueue) > 0
                        THEN startNext(sortByPriority(f), Unset) ELSE f
              ELSE runCurrent(s4)
       ELSE s4

\* ---------------------------------------------------------------- RANDOM
\* RandomScheduler.selectRandomProcess followed by updateState(RUNNING);
\* r is the draw Math.floor(Math.random() * readyQueue.length) + 1
selectRandomProcess(s, r) ==
  LET p == s.readyQueue[r]
  IN [ setProcess(s, p, updateState(s.proc[p], "RUNNING", Unset))
         EXCEPT !.currentProcess = p,
                !.readyQueue     = RemoveAt(@, r),
                !.dispatched     = Append(@, p),
                !.candidates     = Append(@, s.readyQueue) ]

\* a draw u from 1..MaxProcs scaled to the queue length
Draw(u, len) == ((u - 1) % len) + 1

\* RandomScheduler.tick with the two random draws u1 (dispatch) and u2 (successor)
tickRandom(s0, u1, u2) ==
  LET s1 == advance(s0)
      s2 == checkArrivals(s1)
      s3 == IF s2.currentProcess = Null /\ Len(s2.readyQueue) > 0
              THEN selectRandomProcess(s2, Draw(u1, Len(s2.readyQueue))) ELSE s2
      s4 == updateWaitingTimes(s3)
  IN IF s4.currentProcess # Null
       THEN IF isCompleted(s4)
              THEN LET f == finishCurrent(runCurrent(s4))
                   IN IF Len(f.readyQueue) > 0
                        THEN selectRandomProcess(f, Draw(u2, Len(f.readyQueue))) ELSE f
              ELSE runCurrent(s4)
       ELSE s4

\* ------------------------------------------------------------------ SRTF
\* the reduce() of hasShorterRemainingTimeProcess from queue position i
RECURSIVE shortestFrom(_, _, _)
shortestFrom(s, shortest, i) ==
  IF i > Len(s.readyQueue) THEN shortest
  ELSE LET current == s.readyQueue[i]
       IN IF s.proc[current].remainingTime < s.proc[shortest].remainingTime
            THEN shortestFrom(s, current, i + 1)
          ELSE IF /\ s.proc[current].remainingTime = s.proc[shortest].remainingTime
                  /\ s.proc[current].arrivalTime < s.proc[shortest].arrivalTime
            THEN shortestFrom(s, current, i + 1)
          ELSE shortestFrom(s, shortest, i + 1)

hasShorterRemainingTimeProcess_never(s) == FALSE

\* SRTFScheduler.hasShorterRemainingTimeProcess
hasShorterRemainingTimeProcess(s) ==
  IF s.currentProcess = Null THEN FALSE
  ELSE IF Len(s.readyQueue) = 0 THEN FALSE
  ELSE LET shortestProcess == shortestFrom(s, s.readyQueue[1], 1)
       IN s.proc[shortestProcess].remainingTime
            < s.proc[s.currentProcess].remainingTime

preemptCurrent_toWaiting(s) ==
  LET p == s.currentProcess
  IN [ setProcess(s, p, updateState(s.proc[p], "WAITING", Unset))
         EXCEPT !.readyQueue     = Append(@, p),
                !.currentProcess = Null,
                !.preempted      = p ]

preemptCurrent_keepSlot(s) ==
  LET p == s.currentProcess
  IN [ setProcess(s, p, updateState(s.proc[p], "READY", Unset))
         EXCEPT !.readyQueue = Append(@, p),
                !.preempted  = p ]

\* updateState(READY); readyQueue.push(currentProcess); currentProcess = null
preemptCurrent(s) ==
  LET p == s.currentProcess
  IN [ setProcess(s, p, updateState(s.proc[p], "READY", Unset))
         EXCEPT !.readyQueue     = Append(@, p),
                !.currentProcess = Null,
                !.preempted      = p ]

\* SRTFScheduler.tick
tickSRTF(s0) ==
  LET s1 == advance(s0)
      s2 == checkArrivals(s1)
      s3 == IF s2.currentProcess # Null /\ hasShorterRemainingTimeProcess(s2)
              THEN preemptCurrent(s2) ELSE s2
      s4 == IF s3.currentProcess = Null /\ Len(s3.readyQueue) > 0
              THEN startNext(sortByRemaining(s3), Unset) ELSE s3
      s5 == updateWaitingTimes(s4)
  IN IF s5.currentProcess # Null
       THEN IF isCompleted(s5) THEN finishCurrent(runCurrent(s5))
                               ELSE runCurrent(s5)
       ELSE s5

\* ------------------------------------------------------------ PRIORITY_P
\* the reduce() of hasHigherPriorityProcess from queue position i
RECURSIVE highestFrom(_, _, _)
highestFrom(s, highest, i) ==
  IF i > Len(s.readyQueue) THEN highest
  ELSE LET current == s.readyQueue[i]
       IN IF s.proc[current].priority < s.proc[highest].priority
            THEN highestFrom(s, current, i + 1)
          ELSE IF /\ s.proc[current].priority = s.proc[highest].priority
                  /\ s.proc[current].arrivalTime < s.proc[highest].arrivalTime
            THEN highestFrom(s, current, i + 1)
          ELSE highestFrom(s, highest, i + 1)

hasHigherPriorityProcess_orEqual(s) ==
  /\ s.currentProcess # Null /\ Len(s.readyQueue) > 0
  /\ \E q \in Range(s.readyQueue) :
        s.proc[q].priority <= s.proc[s.currentProcess].priority

\* PriorityPreemptiveScheduler.hasHigherPriorityProcess
hasHigherPriorityProcess(s) ==
  IF s.currentProcess = Null THEN FALSE
  ELSE IF Len(s.readyQueue) = 0 THEN FALSE
  ELSE LET highestPriorityProcess == highestFrom(s, s.readyQueue[1], 1)
       IN s.proc[highestPriorityProcess].priority
            < s.proc[s.currentProcess].priority

\* PriorityPreemptiveScheduler.tick
tickPriorityPreemptive(s0) ==
  LET s1 == advance(s0)
      s2 == checkArrivals(s1)
      s3 == IF s2.currentProcess # Null /\ hasHigherPriorityProcess(s2)
              THEN preemptCurrent(s2) ELSE s2
      s4 == IF s3.currentProcess = Null /\ Len(s3.readyQueue) > 0
              THEN startNext(sortByPriority(s3), Unset) ELSE s3
      s5 == updateWaitingTimes(s4)
  IN IF s5.currentProcess # Null
       THEN IF isCompleted(s5) THEN finishCurrent(runCurrent(s5))
                               ELSE runCurrent(s5)
       ELSE s5

\* ----------------------------------------------------------- Round Robin
startSlice_longer(s) ==
  [ startNext(s, Unset) EXCEPT !.timeSliceRemaining = s.timeQuantum + 1 ]

\* startNext plus this.timeSliceRemaining = this.timeQuantum
startSlice(s) ==
  [ startNext(s, Unset) EXCEPT !.timeSliceRemaining = s.timeQuantum ]

quantumExpired_noReady(s) ==
  LET p == s.currentProcess
  IN IF Len(s.readyQueue) > 0
       THEN [ startSlice([ s EXCEPT !.readyQueue = Append(@, p) ])
                EXCEPT !.preempted = p, !.expiredBusy = TRUE ]
       ELSE [ s EXCEPT !.timeSliceRemaining = s.timeQuantum,
                       !.expiredAlone = TRUE ]

quantumExpired_keepRunning(s) ==
  [ s EXCEPT !.timeSliceRemaining = s.timeQuantum ]

\* RoundRobinScheduler.tick, the branch `else if (this.timeSliceRemaining <= 0)`
quantumExpired(s) ==
  LET p == s.currentProcess
      r == setProcess(s, p, updateState(s.proc[p], "READY", Unset))
  IN IF Len(r.readyQueue) > 0
       THEN [ startSlice([ r EXCEPT !.readyQueue = Append(@, p) ])
                EXCEPT !.preempted = p, !.expiredBusy = TRUE ]
       ELSE [ r EXCEPT !.timeSliceRemaining = s.timeQuantum,
                       !.expiredAlone = TRUE ]

\* RoundRobinScheduler.tick
tickRoundRobin(s0) ==
  LET s1 == advance(s0)
      s2 == checkArrivals(s1)
      s3 == IF s2.currentProcess = Null /\ Len(s2.readyQueue) > 0
              THEN startSlice(s2) ELSE s2
      s4 == updateWaitingTimes(s3)
  IN IF s4.currentProcess # Null
       THEN LET s5 == [ s4 EXCEPT !.timeSliceRemaining = @ - 1 ]
            IN IF isCompleted(s5)
                 THEN LET f == finishCurrent(runCurrent(s5))
                      IN IF Len(f.readyQueue) > 0 THEN startSlice(f) ELSE f
               ELSE IF s5.timeSliceRemaining <= 0
                 THEN quantumExpired(runCurrent(s5))
               ELSE runCurrent(s5)
       ELSE s4

\* ------------------------------------------------------- getAllProcesses
\* Array.prototype.filter on a sequence
RECURSIVE SelectFrom(_, _, _)
SelectFrom(q, keep, i) ==
  IF i > Len(q) THEN << >>
  ELSE IF q[i] \in keep THEN << q[i] >> \o SelectFrom(q, keep, i + 1)
  ELSE SelectFrom(q, keep, i + 1)

\* BaseScheduler.getAllProcesses
getAllProcesses ==
  completed
    \o (IF currentProcess # Null THEN << currentProcess >> ELSE << >>)
    \o readyQueue
    \o SelectFrom(processes, { p \in DOMAIN proc : proc[p].state = "NEW" }, 1)

\* =============================================================== factory
\* an identifier that is none of the members of SchedulerType
UnknownType == "MLFQ"

schedulerClass_unknownSJF(type) == IF type \in Policies THEN type ELSE "SJF"

\* SchedulerFactory.createScheduler: the class the switch instantiates
schedulerClass(type) == IF type \in Policies THEN type ELSE "FCFS"

\* SchedulerFactory.createScheduler: the process list the scheduler keeps
\* (FCFSScheduler sorts its copy, the other constructors copy the list)
createScheduler(type, ps, ids) ==
  IF type \in {"SJF", "RANDOM", "PRIORITY", "PRIORITY_P", "RR", "SRTF"}
    THEN ids
    ELSE sortByArrival(ps, ids)

\* const timeQuantum = config?.timeQuantum || 2
configuredQuantum(tq) == IF tq = Unset \/ tq = 0 THEN DefaultQuantum ELSE tq

createdQuantum_everyClass(type, tq) == configuredQuantum(tq)

\* SchedulerFactory.createScheduler: the timeQuantum field of the scheduler
\* it returns; only `case SchedulerType.RR` reads config
createdQuantum(type, tq) ==
  IF schedulerClass(type) = "RR" THEN configuredQuantum(tq) ELSE Unset

\* ================================================================ inputs
\* only the two priority policies read Process.priority
Priorities(algorithm) ==
  IF algorithm \in {"PRIORITY", "PRIORITY_P"} THEN 0..MaxPriority ELSE {0}

Configs(algorithm) ==
  [ arrivalTime : 0..MaxArrival, burstTime : 0..MaxBurst,
    priority : Priorities(algorithm) ]

P(a, b) == [ arrivalTime |-> a, burstTime |-> b, priority |-> 0 ]

\* the process lists of the documented scenarios and of the FCFS test suite
FourProcesses  == << P(0, 5), P(2, 3), P(4, 1), P(6, 4) >>
SameArrival    == << P(0, 5), P(0, 3), P(0, 1) >>
OutOfOrder     == << P(5, 3), P(0, 4), P(2, 2) >>
ZeroBurst      == << P(0, 0), P(0, 3) >>
TwoProcessesRR == << P(0, 5), P(1, 3) >>

Scenarios ==
  { [ algorithm |-> "FCFS", processes |-> FourProcesses,  timeQuantum |-> Unset ],
    [ algorithm |-> "FCFS", processes |-> SameArrival,    timeQuantum |-> Unset ],
    [ algorithm |-> "FCFS", processes |-> OutOfOrder,     timeQuantum |-> Unset ],
    [ algorithm |-> "FCFS", processes |-> ZeroBurst,      timeQuantum |-> Unset ],
    [ algorithm |-> "RR",   processes |-> TwoProcessesRR, timeQuantum |-> 2 ] }

Quanta(algorithm) ==
  IF algorithm = "RR" THEN {Unset} \cup 1..MaxQuantum ELSE {Unset}

\* state of a scheduler built by the factory from (algorithm, list, config)
Constructed(algorithm, list, tq) ==
  LET ids == [ i \in 1..Len(list) |-> i ]
      ps  == [ i \in 1..Len(list) |-> Process(list[i]) ]
  IN /\ policy = algorithm
     /\ timeQuantum = createdQuantum(algorithm, tq)
     /\ configQuantum = tq
     /\ proc = ps
     /\ processes = createScheduler(algorithm, ps, ids)
     /\ readyQueue = << >>
     /\ currentProcess = Null
     /\ completed = << >>
     /\ time = 0
     /\ timeSliceRemaining = 0
     /\ iterations = 0
     /\ allCompleted = FALSE
     /\ returned = FALSE
     /\ result = << >>
     /\ ran = Null
     /\ dispatched = << >>
     /\ preempted = Null
     /\ queueAtExec = << >>
     /\ expiredAlone = FALSE
     /\ expiredBusy = FALSE
     /\ runLength = 0
     /\ aloneSince = FALSE
     /\ candidates = << >>
     /\ lastCall = ""
     /\ trace = << >>
     /\ entryWait = [ i \in 1..Len(list) |-> Unset ]
     /\ ticks = 0

\* no request body, no socket session
NoRequest ==
  [ channel |-> "", algorithm |-> "", shape |-> "", processes |-> << >>,
    showDetailedMetrics |-> FALSE ]

NoSimulation == [ active |-> FALSE, paused |-> FALSE, interval |-> "" ]

NoTimers == [ start |-> 0, speed |-> 0 ]

\* a scheduler built by a direct caller of the factory
InitFor(algorithm, list, tq) ==
  /\ Constructed(algorithm, list, tq)
  /\ request = NoRequest
  /\ simulation = NoSimulation
  /\ emitted = << >>
  /\ connected = FALSE
  /\ timers = NoTimers
  /\ handled = ""

Init ==
  \/ \E a \in Policies \cup {UnknownType}, n \in 0..MaxProcs :
       \E l \in [ 1..n -> Configs(a) ], q \in Quanta(a) : InitFor(a, l, q)
  \/ \E sc \in Scenarios : InitFor(sc.algorithm, sc.processes, sc.timeQuantum)

\* =============================================================== actions
\* the scheduler's fields after one tick() that left it as t
TickTo(t) ==
  /\ ticks' = ticks + 1
  /\ proc' = t.proc
  /\ readyQueue' = t.readyQueue
  /\ currentProcess' = t.currentProcess
  /\ completed' = t.completed
  /\ time' = t.time
  /\ timeSliceRemaining' = t.timeSliceRemaining
  /\ ran' = t.ran
  /\ dispatched' = t.dispatched
  /\ candidates' = t.candidates
  /\ trace' = t.trace
  /\ entryWait' = [ p \in DOMAIN entryWait |->
       LET entries == { k \in 1..Len(t.trace) :
                          t.trace[k].id = p /\ t.trace[k].to = "RUNNING" }
       IN IF entryWait[p] = Unset /\ entries # {}
            THEN t.trace[CHOOSE k \in entries : \A j \in entries : k <= j].waitingTime
            ELSE entryWait[p] ]
  /\ preempted' = t.preempted
  /\ queueAtExec' = t.queueAtExec
  /\ expiredAlone' = t.expiredAlone
  /\ expiredBusy' = t.expiredBusy
  /\ runLength' = IF t.ran = Null THEN 0
                  ELSE IF t.ran = ran THEN runLength + 1 ELSE 1
  /\ aloneSince' = IF t.expiredAlone THEN TRUE
                   ELSE IF t.expiredBusy \/ t.ran # ran THEN FALSE
                   ELSE aloneSince
  /\ UNCHANGED <<policy, timeQuantum, processes, configQuantum>>

Iterate_pastCompletion(t) ==
  /\ ~returned
  /\ iterations < MaxIterations
  /\ allCompleted' = tickReturns(t)
  /\ iterations' = iterations + 1
  /\ TickTo(t)
  /\ UNCHANGED <<returned, result, lastCall, request, simulation, emitted,
                 connected, timers, handled>>

\* one iteration of the loop of BaseScheduler.runSimulation, t being the
\* scheduler after this.tick()
Iterate(t) ==
  /\ ~returned
  /\ ~allCompleted /\ iterations < MaxIterations
  /\ allCompleted' = tickReturns(t)
  /\ iterations' = iterations + 1
  /\ TickTo(t)
  /\ UNCHANGED <<returned, result, lastCall, request, simulation, emitted,
                 connected, timers, handled>>

FCFSTick == schedulerClass(policy) = "FCFS" /\ Iterate(tickFCFS(Self))

SJFTick_preemptive == schedulerClass(policy) = "SJF" /\ Iterate(tickSRTF(Self))

SJFTick == schedulerClass(policy) = "SJF" /\ Iterate(tickSJF(Self))

PriorityTick == schedulerClass(policy) = "PRIORITY" /\ Iterate(tickPriority(Self))

RandomTick ==
  /\ schedulerClass(policy) = "RANDOM"
  /\ \E u1, u2 \in 1..MaxProcs : Iterate(tickRandom(Self, u1, u2))

SRTFTick == schedulerClass(policy) = "SRTF" /\ Iterate(tickSRTF(Self))

PriorityPreemptiveTick == schedulerClass(policy) = "PRIORITY_P" /\ Iterate(tickPriorityPreemptive(Self))

RoundRobinTick == schedulerClass(policy) = "RR" /\ Iterate(tickRoundRobin(Self))

\* BaseScheduler.runSimulation: loop exit and `return this.completed`
RunSimulationReturn ==
  /\ ~returned
  /\ ~(~allCompleted /\ iterations < MaxIterations)
  /\ returned' = TRUE
  /\ result' = completed
  /\ UNCHANGED <<policy, timeQuantum, proc, processes, readyQueue,
                 currentProcess, completed, time, timeSliceRemaining,
                 iterations, allCompleted, ran, dispatched, preempted,
                 queueAtExec, expiredAlone, expiredBusy, runLength, aloneSince,
                 candidates, lastCall, trace, entryWait, configQuantum,
                 request, simulation, emitted, ticks, connected, timers, handled>>

Next ==
  \/ FCFSTick
  \/ SJFTick
  \/ PriorityTick
  \/ RandomTick
  \/ SRTFTick
  \/ PriorityPreemptiveTick
  \/ RoundRobinTick
  \/ RunSimulationReturn

Spec == Init /\ [][Next]_vars

\* ------------------------------------- requests carrying config.timeQuantum
\* the values of config.timeQuantum a request may carry, for any algorithm
ConfigQuanta == {Unset} \cup 0..MaxQuantum

ConfigInit ==
  \E a \in Policies, n \in 0..MaxConfigProcs :
    \E l \in [ 1..n -> Configs(a) ], q \in ConfigQuanta : InitFor(a, l, q)

ConfigSpec == ConfigInit /\ [][Next]_vars

\* the schedulers one tick() can lead to from scheduler s
Ticks(s) ==
  CASE schedulerClass(policy) = "FCFS"       -> { tickFCFS(s) }
    [] schedulerClass(policy) = "SJF"        -> { tickSJF(s) }
    [] schedulerClass(policy) = "PRIORITY"   -> { tickPriority(s) }
    [] schedulerClass(policy) = "SRTF"       -> { tickSRTF(s) }
    [] schedulerClass(policy) = "PRIORITY_P" -> { tickPriorityPreemptive(s) }
    [] schedulerClass(policy) = "RR"         -> { tickRoundRobin(s) }
    [] schedulerClass(policy) = "RANDOM"     ->
         { tickRandom(s, u1, u2) : u1, u2 \in 1..MaxProcs }

\* ============================ HTTP controller and Socket.IO service
\* ------------------------------------------------------------ requests
\* String.prototype.toUpperCase on the identifiers a request carries
toUpperCase(a) == IF a = "fcfs" THEN "FCFS" ELSE a

\* body.algorithm: missing (""), a member of SchedulerType in either case,
\* or another identifier
Algorithms == Policies \cup {"", "fcfs", UnknownType}

\* one element of body.processes; arrivalTime and burstTime are whatever
\* numbers the client sent
Specs(algorithm) ==
  [ arrivalTime : (0 - 1)..MaxArrival, burstTime : (0 - 1)..MaxBurst,
    priority : Priorities(toUpperCase(algorithm)) ]

\* body.processes: missing, present but not an array, or an array
Shapes == {"missing", "notArray", "array"}

Requests(channel) ==
  { [ channel |-> channel, algorithm |-> a, shape |-> sh, processes |-> l,
      showDetailedMetrics |-> d ] :
      a \in Algorithms, sh \in {"missing", "notArray"}, l \in {<< >>},
      d \in {FALSE} }
  \cup
  UNION { { [ channel |-> channel, algorithm |-> a, shape |-> "array",
              processes |-> l, showDetailedMetrics |-> d ] :
              l \in UNION { [ 1..n -> Specs(a) ] : n \in 0..MaxConfigProcs },
              d \in IF channel = "socket" THEN BOOLEAN ELSE {FALSE} } :
          a \in Algorithms }

\* the two validation steps shared by runSimulation (the controller) and the
\* start-simulation handler: the request passes them
accepts(r) ==
  /\ ~(r.algorithm = "" \/ r.shape = "missing" \/ r.shape # "array")
  /\ toUpperCase(r.algorithm) \in Policies

\* ------------------------------------------------------------ numbers
\* a JavaScript number sent to the client: absent, NaN, or value
Absent == [ kind |-> "absent", value |-> 0 ]
NaN == [ kind |-> "NaN", value |-> 0 ]
number(v) == [ kind |-> "number", value |-> v ]

Abs(a) == IF a < 0 THEN 0 - a ELSE a

\* (a / b).toFixed(2) for integers a and b, in hundredths; 0 / 0 is NaN
fixedQuotient(a, b) ==
  IF b = 0
    THEN IF a = 0 THEN NaN ELSE [ kind |-> "Infinity", value |-> a ]
    ELSE LET q == (200 * Abs(a) + Abs(b)) \div (2 * Abs(b))
         IN number(IF (a < 0) # (b < 0) THEN 0 - q ELSE q)

\* BaseScheduler.getAllProcesses on scheduler s
allProcesses(s) ==
  s.completed
    \o (IF s.currentProcess # Null THEN << s.currentProcess >> ELSE << >>)
    \o s.readyQueue
    \o SelectFrom(processes, { p \in DOMAIN s.proc : s.proc[p].state = "NEW" }, 1)

\* list.reduce((sum, p) => sum + p[field], 0), responseTime read as
\* (p.responseTime || 0)
RECURSIVE reduce(_, _, _, _)
reduce(s, list, field, i) ==
  IF i > Len(list) THEN 0
  ELSE (IF field = "responseTime" /\ s.proc[list[i]][field] = Unset
          THEN 0 ELSE s.proc[list[i]][field])
       + reduce(s, list, field, i + 1)

\* allProcesses.reduce(sum + (p.state === RUNNING ? p.burstTime - p.remainingTime : 0), 0)
RECURSIVE runningProgress(_, _, _)
runningProgress(s, list, i) ==
  IF i > Len(list) THEN 0
  ELSE (IF s.proc[list[i]].state = "RUNNING"
          THEN s.proc[list[i]].burstTime - s.proc[list[i]].remainingTime ELSE 0)
       + runningProgress(s, list, i + 1)

\* ((totalBurstTime / totalTime) * 100).toFixed(2) over the processes of list
cpuUtilization(s, list) ==
  fixedQuotient(100 * reduce(s, list, "burstTime", 1), s.time)

\* let avg = 0; if (completedProcesses.length > 0) avg = sum / length
average(s, list, field) ==
  IF Len(list) > 0 THEN fixedQuotient(reduce(s, list, field, 1), Len(list))
  ELSE number(0)

\* ------------------------------------------------------------ messages
Message(event) ==
  [ event |-> event, state |-> "", currentTime |-> Unset,
    completedProcesses |-> Unset, avgWaitingTime |-> Absent,
    avgTurnaroundTime |-> Absent, avgResponseTime |-> Absent,
    cpuIdleTime |-> Absent ]

terminatedOf(s) ==
  SelectFrom(allProcesses(s), { p \in DOMAIN s.proc : s.proc[p].state = "TERMINATED" }, 1)

\* SocketService.emitSimulationState: the simulation-step message
Snapshot(s, detailed) ==
  LET completedProcesses == terminatedOf(s)
  IN [ Message("simulation-step") EXCEPT
         !.currentTime        = s.time,
         !.completedProcesses = Len(completedProcesses),
         !.avgWaitingTime     = average(s, completedProcesses, "waitingTime"),
         !.avgTurnaroundTime  = average(s, completedProcesses, "turnaroundTime"),
         !.avgResponseTime    = average(s, completedProcesses, "responseTime"),
         !.cpuIdleTime        =
            IF detailed
              THEN number(s.time - runningProgress(s, allProcesses(s), 1))
              ELSE Absent ]

\* the simulation-completed message of the interval callback
Completion(s) ==
  LET completedProcesses == terminatedOf(s)
  IN [ Message("simulation-completed") EXCEPT
         !.currentTime        = s.time,
         !.completedProcesses = Len(completedProcesses),
         !.avgWaitingTime     = average(s, completedProcesses, "waitingTime"),
         !.avgTurnaroundTime  = average(s, completedProcesses, "turnaroundTime"),
         !.avgResponseTime    = average(s, completedProcesses, "responseTime"),
         !.cpuIdleTime        =
            number(s.time - reduce(s, completedProcesses, "burstTime", 1)) ]

\* the simulation-state message of pause, resume and reset
StateMessage(state, currentTime) ==
  [ Message("simulation-state") EXCEPT !.state = state, !.currentTime = currentTime ]

\* the controller's 200 response: statistics over `result`, unguarded
Success(s) ==
  [ Message("200") EXCEPT
      !.currentTime        = s.time,
      !.completedProcesses = Len(result),
      !.avgWaitingTime     = fixedQuotient(reduce(s, result, "waitingTime", 1), Len(result)),
      !.avgTurnaroundTime  = fixedQuotient(reduce(s, result, "turnaroundTime", 1), Len(result)),
      !.avgResponseTime    = fixedQuotient(reduce(s, result, "responseTime", 1), Len(result)) ]

\* ------------------------------------------------------------ handlers
\* no scheduler was constructed
NoScheduler == Constructed("", << >>, Unset)

\* the state once the controller (channel "http") or the start-simulation
\* handler (channel "socket") has validated request r
Received(r, tq) ==
  /\ request = r
  /\ connected = (r.channel = "socket")
  /\ handled = IF r.channel = "socket" THEN "start-simulation" ELSE ""
  /\ IF accepts(r)
       THEN /\ Constructed(toUpperCase(r.algorithm), r.processes, tq)
            /\ simulation = IF r.channel = "socket"
                 THEN [ active |-> TRUE, paused |-> FALSE, interval |-> "start" ]
                 ELSE NoSimulation
            /\ timers = IF r.channel = "socket"
                 THEN [ NoTimers EXCEPT !.start = 1 ] ELSE NoTimers
            /\ emitted = IF r.channel = "socket"
                 THEN << Snapshot(Self, r.showDetailedMetrics) >>
                 ELSE << >>
       ELSE /\ NoScheduler
            /\ simulation = NoSimulation
            /\ timers = NoTimers
            /\ emitted = << Message(IF r.channel = "socket"
                                      THEN "simulation-error" ELSE "400") >>

ApiInit ==
  \E channel \in {"http", "socket"} :
    \E r \in Requests(channel) :
      \E tq \in Quanta(toUpperCase(r.algorithm)) : Received(r, tq)

\* controller: scheduler.runSimulation(), one iteration of its loop
ControllerTick ==
  /\ request.channel = "http" /\ policy # ""
  /\ \E t \in Ticks(Self) : Iterate(t)

\* controller: runSimulation returns its result
ControllerReturn ==
  /\ request.channel = "http" /\ policy # ""
  /\ RunSimulationReturn

\* controller: statistics and the 200 response
ControllerRespond ==
  /\ request.channel = "http" /\ returned /\ emitted = << >>
  /\ emitted' = << Success(Self) >>
  /\ UNCHANGED <<policy, timeQuantum, proc, processes, readyQueue,
                 currentProcess, completed, time, timeSliceRemaining,
                 iterations, allCompleted, returned, result, ran, dispatched,
                 preempted, queueAtExec, expiredAlone, expiredBusy, runLength,
                 aloneSince, candidates, lastCall, trace, entryWait,
                 configQuantum, request, simulation, ticks, connected, timers,
                 handled>>

\* runSimulationStep: scheduler.tick() then emitSimulationState
runSimulationStep(t) ==
  /\ ticks < MaxSteps
  /\ TickTo(t)
  /\ UNCHANGED <<iterations, allCompleted, returned, result, lastCall, request,
                 connected>>

\* the scheduler and its history stay as they are
SchedulerUnchanged ==
  UNCHANGED <<policy, timeQuantum, proc, processes, readyQueue,
              currentProcess, completed, time, timeSliceRemaining,
              iterations, allCompleted, returned, result, ran, dispatched,
              preempted, queueAtExec, expiredAlone, expiredBusy, runLength,
              aloneSince, candidates, lastCall, trace, entryWait,
              configQuantum, request, ticks>>

IntervalCallback_whilePaused(kind) ==
  /\ timers[kind] > 0
  /\ handled' = "interval"
  /\ IF simulation.active
       THEN \E t \in Ticks(Self) :
              /\ runSimulationStep(t)
              /\ IF tickReturns(t)
                   THEN /\ simulation' = NoSimulation
                        /\ timers' = [ timers EXCEPT ![kind] = @ - 1 ]
                        /\ emitted' = << Snapshot(t, request.showDetailedMetrics) >>
                             \o (IF kind = "start" THEN << Completion(t) >> ELSE << >>)
                   ELSE /\ simulation' = simulation
                        /\ timers' = timers
                        /\ emitted' = << Snapshot(t, request.showDetailedMetrics) >>
       ELSE /\ emitted' = << >>
            /\ SchedulerUnchanged
            /\ UNCHANGED <<simulation, timers, connected>>

\* one firing of a timer of the client set by handler `kind`: the callback
\* of start-simulation emits the completion event, the one of
\* change-tick-speed only removes the session
IntervalCallback(kind) ==
  /\ timers[kind] > 0
  /\ handled' = "interval"
  /\ IF simulation.active /\ ~simulation.paused
       THEN \E t \in Ticks(Self) :
              /\ runSimulationStep(t)
              /\ IF tickReturns(t)
                   THEN /\ simulation' = NoSimulation
                        /\ timers' = [ timers EXCEPT ![kind] = @ - 1 ]
                        /\ emitted' = << Snapshot(t, request.showDetailedMetrics) >>
                             \o (IF kind = "start" THEN << Completion(t) >> ELSE << >>)
                   ELSE /\ simulation' = simulation
                        /\ timers' = timers
                        /\ emitted' = << Snapshot(t, request.showDetailedMetrics) >>
       ELSE /\ emitted' = << >>
            /\ SchedulerUnchanged
            /\ UNCHANGED <<simulation, timers, connected>>

\* the setInterval callback of start-simulation
IntervalTick == IntervalCallback("start")

\* the setInterval callback of change-tick-speed
SpeedIntervalTick == IntervalCallback("speed")

\* step-simulation
StepSimulation ==
  /\ connected /\ simulation.active
  /\ handled' = "step-simulation"
  /\ \E t \in Ticks(Self) :
       /\ runSimulationStep(t)
       /\ simulation' = simulation
       /\ timers' = timers
       /\ emitted' = << Snapshot(t, request.showDetailedMetrics) >>

\* a handler that changes the session only
Session(name, after, timersAfter, messages) ==
  /\ connected /\ simulation.active
  /\ handled' = name
  /\ simulation' = after
  /\ timers' = timersAfter
  /\ emitted' = messages
  /\ SchedulerUnchanged

\* clearInterval(simulation.intervalId)
clearInterval == [ timers EXCEPT ![simulation.interval] = @ - 1 ]

PauseSimulation ==
  /\ Session("pause-simulation", [ simulation EXCEPT !.paused = TRUE ], timers,
             << StateMessage("paused", time) >>)
  /\ connected' = connected

ResumeSimulation ==
  /\ Session("resume-simulation", [ simulation EXCEPT !.paused = FALSE ], timers,
             << StateMessage("running", time) >>)
  /\ connected' = connected

ResetSimulation ==
  /\ Session("reset-simulation", NoSimulation, clearInterval,
             << StateMessage("reset", 0) >>)
  /\ connected' = connected

Disconnect ==
  /\ connected
  /\ connected' = FALSE
  /\ handled' = "disconnect"
  /\ emitted' = << >>
  /\ simulation' = NoSimulation
  /\ timers' = IF simulation.active THEN clearInterval ELSE timers
  /\ SchedulerUnchanged

\* change-tick-speed with a stepInterval that is valid or not
ChangeTickSpeed ==
  /\ connected
  /\ handled' = "change-tick-speed"
  /\ \E valid \in BOOLEAN :
       IF valid /\ simulation.active
         THEN /\ timers' = [ clearInterval EXCEPT !.speed = @ + 1 ]
              /\ simulation' = [ simulation EXCEPT !.interval = "speed" ]
              /\ emitted' = << StateMessage(IF simulation.paused
                                              THEN "paused" ELSE "running", time) >>
         ELSE /\ emitted' = << Message("simulation-error") >>
              /\ UNCHANGED <<simulation, timers>>
  /\ connected' = connected
  /\ SchedulerUnchanged

\* start-simulation sent again with the same data, whether or not a
\* simulation of the client exists
StartSimulation ==
  /\ connected /\ accepts(request)
  /\ timers.start + timers.speed < MaxTimers
  /\ handled' = "start-simulation"
  /\ proc' = [ i \in DOMAIN proc |-> Process(request.processes[i]) ]
  /\ readyQueue' = << >>
  /\ currentProcess' = Null
  /\ completed' = << >>
  /\ time' = 0
  /\ timeSliceRemaining' = 0
  /\ ran' = Null
  /\ dispatched' = << >>
  /\ preempted' = Null
  /\ queueAtExec' = << >>
  /\ expiredAlone' = FALSE
  /\ expiredBusy' = FALSE
  /\ runLength' = 0
  /\ aloneSince' = FALSE
  /\ candidates' = << >>
  /\ trace' = << >>
  /\ entryWait' = [ i \in DOMAIN proc |-> Unset ]
  /\ ticks' = 0
  /\ simulation' = [ active |-> TRUE, paused |-> FALSE, interval |-> "start" ]
  /\ timers' = [ timers EXCEPT !.start = @ + 1 ]
  /\ emitted' = << [ Message("simulation-step") EXCEPT
                       !.currentTime = 0, !.completedProcesses = 0,
                       !.avgWaitingTime = number(0),
                       !.avgTurnaroundTime = number(0),
                       !.avgResponseTime = number(0),
                       !.cpuIdleTime = IF request.showDetailedMetrics
                                         THEN number(0) ELSE Absent ] >>
  /\ UNCHANGED <<policy, timeQuantum, processes, configQuantum, request,
                 iterations, allCompleted, returned, result, lastCall,
                 connected>>

ApiNext ==
  \/ ControllerTick
  \/ ControllerReturn
  \/ ControllerRespond
  \/ IntervalTick
  \/ StepSimulation
  \/ PauseSimulation
  \/ ResumeSimulation
  \/ ResetSimulation
  \/ Disconnect

ApiSpec == ApiInit /\ [][ApiNext]_vars

\* ------------------------- one client of the socket service, all events
SessionLists ==
  { << >>, << P(0, 1) >>, << P(0, 2) >>, << P(1, 1) >>, << P(0, 1), P(1, 1) >> }

SessionInit ==
  \E r \in Requests("socket") :
    /\ r.algorithm \in Policies /\ r.shape = "array"
    /\ r.processes \in SessionLists /\ ~r.showDetailedMetrics
    /\ Received(r, Unset)

SessionNext ==
  \/ IntervalTick
  \/ SpeedIntervalTick
  \/ StepSimulation
  \/ PauseSimulation
  \/ ResumeSimulation
  \/ ResetSimulation
  \/ Disconnect
  \/ ChangeTickSpeed
  \/ StartSimulation

SessionSpec == SessionInit /\ [][SessionNext]_vars

\* ================================== the Process entity called directly
\* a Process object whose public methods are called by a client other than
\* the scheduler's tick, in any order; the object is proc[1]
ProcessStates == {"NEW", "READY", "RUNNING", "WAITING", "TERMINATED"}

CallTimes == 0..MaxCallTime

ProcessInit == \E c \in Configs("FCFS") : InitFor("FCFS", << c >>, Unset)

\* one direct call, leaving the object as `after`
Call(method, after) ==
  /\ proc' = [ proc EXCEPT ![1] = after ]
  /\ lastCall' = method
  /\ UNCHANGED <<policy, timeQuantum, processes, readyQueue, currentProcess,
                 completed, time, timeSliceRemaining, iterations, allCompleted,
                 returned, result, ran, dispatched, preempted, queueAtExec,
                 expiredAlone, expiredBusy, runLength, aloneSince, candidates,
                 trace, entryWait, configQuantum, request, simulation,
                 emitted, ticks, connected, timers, handled>>

CallUpdateState ==
  \E newState \in ProcessStates, t \in {Unset} \cup CallTimes :
    /\ t # Unset => Len(proc[1].runningTimestamps) < MaxStamps
    /\ Call("updateState", updateState(proc[1], newState, t))

CallExecute == Call("execute", execute(proc[1], 1))

CallUpdateWaitingTime ==
  /\ proc[1].waitingTime < MaxCallTime
  /\ Call("updateWaitingTime", updateWaitingTime(proc[1], 1))

CallComplete ==
  \E t \in CallTimes : Call("complete", complete(proc[1], t))

ProcessNext ==
  \/ CallUpdateState
  \/ CallExecute
  \/ CallUpdateWaitingTime
  \/ CallComplete

ProcessSpec == ProcessInit /\ [][ProcessNext]_vars

\* ============================================================ properties
Ids == DOMAIN proc

Max(a, b) == IF a >= b THEN a ELSE b

RECURSIVE SumOver(_, _)
SumOver(f, n) == IF n = 0 THEN 0 ELSE f[n] + SumOver(f, n - 1)

\* total CPU time consumed so far: sum of burstTime - remainingTime
CpuConsumed ==
  SumOver([ p \in Ids |-> proc[p].burstTime - proc[p].remainingTime ], Len(processes))

TotalBurst == SumOver([ p \in Ids |-> proc[p].burstTime ], Len(processes))

AllTerminated ==
  \A p \in Ids : proc[p].state = "TERMINATED" /\ proc[p].remainingTime = 0

\* the scheduler was built from exactly this list of process configurations
BuiltFrom(list) ==
  /\ Len(processes) = Len(list)
  /\ \A i \in 1..Len(list) :
       /\ proc[i].arrivalTime = list[i].arrivalTime
       /\ proc[i].burstTime = list[i].burstTime
       /\ proc[i].priority = list[i].priority

\* C1: under every policy, for every finite process set, repeated tick()
\* eventually returns true, and then every process is TERMINATED with
\* remainingTime 0 and the CPU time consumed equals the sum of the bursts.
\* runSimulation leaves its loop only when tick() has returned true or after
\* MaxIterations calls, more than the arrivals and bursts of any input need.
C1_AllTerminate ==
  returned => allCompleted /\ AllTerminated /\ CpuConsumed = TotalBurst

\* C2: Round Robin, quantum expired with an empty READY queue and the
\* process not complete: the process keeps the running slot in state
\* RUNNING with a refreshed countdown, and executes one unit in the next tick.
C2_ContinuesAlone ==
  [][ /\ expiredAlone =>
          /\ currentProcess # Null
          /\ proc[currentProcess].state = "RUNNING"
          /\ timeSliceRemaining = timeQuantum
      /\ (expiredAlone /\ time' = time + 1) =>
          /\ ran' = currentProcess
          /\ proc'[currentProcess].remainingTime
               = proc[currentProcess].remainingTime - 1 ]_vars

\* C3: Round Robin with quantum Q: no process executes in more than Q
\* consecutive ticks unless the READY queue was empty when its quantum
\* expired; a process whose quantum expired with a non-empty queue does not
\* execute in the following tick.
C3_QuantumBound ==
  [][ policy = "RR" =>
        /\ (ran' # Null /\ runLength' > timeQuantum) => aloneSince
        /\ (expiredBusy /\ time' = time + 1) => ran' # ran ]_vars

\* a process used its whole quantum and was rotated behind a waiting process
C3_Witness ==
  /\ policy = "RR" /\ timeQuantum > 1
  /\ expiredBusy /\ runLength = timeQuantum /\ preempted = ran
  /\ currentProcess # Null /\ currentProcess # ran

\* C4: Round Robin, quantum 2, P1(0,5), P2(1,3): P1 executes in ticks 1 and
\* 2, is preempted, P2 executes in tick 3, afterwards the two alternate in
\* slices of at most 2 ticks, and both end TERMINATED with remainingTime 0.
C4_RoundRobinScenario ==
  (policy = "RR" /\ timeQuantum = 2 /\ BuiltFrom(TwoProcessesRR)) =>
    /\ time = 1 => ran = 1
    /\ time = 2 => ran = 1 /\ preempted = 1 /\ currentProcess = 2
    /\ time = 3 => ran = 2
    /\ time >= 1 => ran \in {1, 2} /\ runLength <= 2
    /\ returned => allCompleted /\ AllTerminated

C4_Witness ==
  /\ policy = "RR" /\ timeQuantum = 2 /\ BuiltFrom(TwoProcessesRR)
  /\ returned /\ time = 8 /\ Len(result) = 2

\* ids ordered by arrivalTime, equal arrival times in input order
InArrivalOrder(q) ==
  \A i, j \in 1..Len(q) :
     i < j => \/ proc[q[i]].arrivalTime < proc[q[j]].arrivalTime
              \/ proc[q[i]].arrivalTime = proc[q[j]].arrivalTime /\ q[i] < q[j]

\* C5: FCFS: the completed list returned by runSimulation is the input list
\* stably sorted by arrivalTime.
C5_FCFSOrder ==
  (policy = "FCFS" /\ returned) =>
    /\ Len(result) = Len(processes)
    /\ Range(result) = Ids
    /\ InArrivalOrder(result)

\* an input in which a later entry arrives earlier: the result reorders it
C5_Witness ==
  /\ policy = "FCFS" /\ returned /\ Len(result) = Len(processes)
  /\ \E i, j \in 1..Len(result) :
       i < j /\ result[i] > result[j]
             /\ proc[result[i]].arrivalTime < proc[result[j]].arrivalTime

\* C6: FCFS on P1(0,5), P2(2,3), P3(4,1), P4(6,4): completion order
\* [P1,P2,P3,P4], waiting times [0,3,4,3], turnaround times [5,6,5,7].
C6_FCFSScenario ==
  (policy = "FCFS" /\ BuiltFrom(FourProcesses) /\ returned) =>
    /\ result = << 1, 2, 3, 4 >>
    /\ [ p \in Ids |-> proc[p].waitingTime ] = << 0, 3, 4, 3 >>
    /\ [ p \in Ids |-> proc[p].turnaroundTime ] = << 5, 6, 5, 7 >>

\* completion tick of the predecessor of result[k] (0 if none)
PredecessorCompletion(k) ==
  IF k = 1 THEN 0 ELSE proc[result[k - 1]].completionTime

C8_FCFSCompletion ==
  (policy = "FCFS" /\ returned) =>
    /\ \A k \in 1..Len(result) :
         LET p == result[k]
         IN /\ proc[p].completionTime
                 = Max(PredecessorCompletion(k), Max(proc[p].arrivalTime, 1) - 1)
                     + Max(proc[p].burstTime, 1)
            /\ proc[p].turnaroundTime = proc[p].completionTime - proc[p].arrivalTime
    /\ BuiltFrom(ZeroBurst) =>
         /\ result = << 1, 2 >>
         /\ proc[1].turnaroundTime = 1 /\ proc[2].turnaroundTime = 4
    /\ BuiltFrom(FourProcesses) =>
         [ p \in Ids |-> proc[p].turnaroundTime ] = << 5, 6, 5, 7 >>

\* a completed run with a zero-burst process, an idle gap and a queued process
C8_Witness ==
  /\ policy = "FCFS" /\ returned /\ Len(result) = Len(processes)
  /\ \E p \in Ids : proc[p].burstTime = 0
  /\ \E k \in 1..Len(result) :
       PredecessorCompletion(k) < proc[result[k]].arrivalTime - 1
  /\ \E p \in Ids : proc[p].waitingTime > 0

\* C9: with an empty process list the first tick() returns true,
\* runSimulation returns an empty list and getCurrentTime() is 1 afterwards.
C9_EmptyInput ==
  Len(processes) = 0 =>
    /\ iterations >= 1 => allCompleted /\ iterations = 1
    /\ returned => result = << >> /\ time = 1 /\ iterations = 1

C9_Witness == Len(processes) = 0 /\ returned /\ time = 1

\* C10: SRTF: in every tick in which a process executes, its remainingTime
\* before executing is <= that of every process in the READY queue; when a
\* process with strictly smaller remainingTime than the running one becomes
\* READY in a tick, the running process goes back to READY and the process
\* executing in that tick is a newly READY one with the smallest
\* remainingTime.
C10_SRTFShortestRuns ==
  [][ (policy = "SRTF" /\ time' = time + 1) =>
        /\ ran' # Null =>
             \A q \in Range(queueAtExec') :
                proc[ran'].remainingTime <= proc[q].remainingTime
        /\ ( /\ currentProcess # Null
             /\ \E q \in Ids : /\ proc[q].state = "NEW" /\ proc'[q].state # "NEW"
                               /\ proc[q].remainingTime
                                    < proc[currentProcess].remainingTime ) =>
             /\ preempted' = currentProcess
             /\ proc'[currentProcess].state = "READY"
             /\ currentProcess \in Range(readyQueue')
             /\ ran' # Null /\ ran' # currentProcess
             /\ proc[ran'].state = "NEW"
             /\ proc[ran'].remainingTime < proc[currentProcess].remainingTime ]_vars

\* a running process was preempted by a shorter arrival, which executed
C10_Witness ==
  /\ policy = "SRTF" /\ preempted # Null /\ ran # Null /\ ran # preempted
  /\ proc[preempted].state = "READY"
  /\ proc[preempted].remainingTime > 0

\* C11: Priority-Preemptive: when a process whose priority value is strictly
\* lower than the running one's becomes READY in a tick, the running process
\* goes RUNNING -> READY within that tick and the process executing in that
\* tick is a newly READY one of strictly lower priority value; a process of
\* equal (or higher) priority value never preempts.
C11_PriorityPreempts ==
  [][ (policy = "PRIORITY_P" /\ time' = time + 1) =>
        /\ ( /\ currentProcess # Null
             /\ \E q \in Ids : /\ proc[q].state = "NEW" /\ proc'[q].state # "NEW"
                               /\ proc[q].priority < proc[currentProcess].priority ) =>
             /\ preempted' = currentProcess
             /\ proc[currentProcess].state = "RUNNING"
             /\ proc'[currentProcess].state = "READY"
             /\ currentProcess \in Range(readyQueue')
             /\ ran' # Null /\ ran' # currentProcess
             /\ proc[ran'].state = "NEW"
             /\ proc[ran'].priority < proc[currentProcess].priority
             /\ \A q \in Range(readyQueue') :
                  proc[ran'].priority <= proc[q].priority
        /\ ( /\ currentProcess # Null
             /\ proc[currentProcess].state = "RUNNING"
             /\ \A q \in Ids :
                  (proc[q].state = "READY"
                     \/ (proc[q].state = "NEW" /\ proc'[q].state # "NEW")) =>
                  proc[q].priority >= proc[currentProcess].priority ) =>
             /\ preempted' = Null
             /\ ran' = currentProcess ]_vars

\* a running process was preempted by an arrival of lower priority value,
\* which executed, while an arrival of equal priority value stayed queued
C11_Witness ==
  /\ policy = "PRIORITY_P" /\ preempted # Null /\ ran # Null /\ ran # preempted
  /\ proc[preempted].state = "READY"
  /\ proc[ran].priority < proc[preempted].priority

\* an arrival of equal priority value left the running process in the slot
C11_WitnessEqual ==
  /\ policy = "PRIORITY_P" /\ preempted = Null /\ ran # Null
  /\ ran = currentProcess
  /\ \E q \in Range(readyQueue) :
       /\ proc[q].priority = proc[ran].priority
       /\ proc[q].waitingTime = 1

\* C12: SJF: every process dispatched in a tick (at the start of the tick
\* with the CPU free, or as successor after a completion) has the minimum
\* remainingTime among the processes in the READY queue at that moment and,
\* among those of equal remainingTime, the smallest arrivalTime.
C12_SJFDispatch ==
  [][ (policy = "SJF" /\ time' = time + 1) =>
        /\ Len(candidates') = Len(dispatched')
        /\ \A k \in 1..Len(dispatched') :
             LET d == dispatched'[k]
             IN /\ d \in Range(candidates'[k])
                /\ \A q \in Range(candidates'[k]) :
                     \/ proc[d].remainingTime < proc[q].remainingTime
                     \/ /\ proc[d].remainingTime = proc[q].remainingTime
                        /\ proc[d].arrivalTime <= proc[q].arrivalTime ]_vars

\* SJF dispatched the shorter of two queued processes although the longer
\* one was queued first (it comes first in the input and arrived no later)
C12_Witness ==
  /\ policy = "SJF"
  /\ \E k \in 1..Len(dispatched) : \E q \in Range(candidates[k]) :
       /\ q < dispatched[k]
       /\ proc[q].arrivalTime <= proc[dispatched[k]].arrivalTime
       /\ proc[dispatched[k]].burstTime < proc[q].burstTime

\* SJF broke a tie on remainingTime by the smaller arrivalTime
C12_WitnessTie ==
  /\ policy = "SJF"
  /\ \E k \in 1..Len(dispatched) : \E q \in Range(candidates[k]) :
       /\ q < dispatched[k]
       /\ proc[dispatched[k]].burstTime = proc[q].burstTime
       /\ proc[dispatched[k]].arrivalTime < proc[q].arrivalTime

\* C13: non-preemptive Priority: every process dispatched in a tick (at the
\* start of the tick with the CPU free, or as successor after a completion)
\* has the minimum priority value among the processes in the READY queue at
\* that moment and, among those of equal priority, the smallest arrivalTime.
C13_PriorityDispatch ==
  [][ (policy = "PRIORITY" /\ time' = time + 1) =>
        /\ Len(candidates') = Len(dispatched')
        /\ \A k \in 1..Len(dispatched') :
             LET d == dispatched'[k]
             IN /\ d \in Range(candidates'[k])
                /\ \A q \in Range(candidates'[k]) :
                     \/ proc[d].priority < proc[q].priority
                     \/ /\ proc[d].priority = proc[q].priority
                        /\ proc[d].arrivalTime <= proc[q].arrivalTime ]_vars

\* Priority dispatched the process of lower priority value although it
\* arrived later than the other queued process
C13_Witness ==
  /\ policy = "PRIORITY"
  /\ \E k \in 1..Len(dispatched) :
       /\ Len(candidates[k]) > 1
       /\ \E q \in Range(candidates[k]) :
            /\ proc[dispatched[k]].priority < proc[q].priority
            /\ proc[dispatched[k]].arrivalTime > proc[q].arrivalTime

NonPreemptive == {"FCFS", "SJF", "PRIORITY", "RANDOM"}

\* C14: FCFS, SJF, non-preemptive Priority and Random: a process that has
\* entered the running slot stays there until it is TERMINATED; no process
\* ever goes from RUNNING to READY.
C14_NoPreemption ==
  [][ (policy \in NonPreemptive /\ time' = time + 1) =>
        /\ preempted' = Null
        /\ \A p \in Ids : proc[p].state = "RUNNING" =>
             proc'[p].state \in {"RUNNING", "TERMINATED"}
        /\ currentProcess # Null =>
             \/ /\ currentProcess' = currentProcess
                /\ proc'[currentProcess].state = "RUNNING"
             \/ /\ proc'[currentProcess].state = "TERMINATED"
                /\ proc'[currentProcess].remainingTime = 0
                /\ currentProcess \in Range(completed') ]_vars

\* a running process kept the CPU for a further tick although a shorter
\* process (SJF) or one of lower priority value (PRIORITY) was READY
C14_Witness ==
  /\ policy \in {"SJF", "PRIORITY"} /\ ran # Null /\ runLength >= 2
  /\ \E q \in Range(queueAtExec) :
       /\ proc[q].arrivalTime > proc[ran].arrivalTime
       /\ \/ policy = "SJF" /\ proc[q].burstTime <= proc[ran].remainingTime
          \/ policy = "PRIORITY" /\ proc[q].priority < proc[ran].priority

\* C15: calling complete a second time on an already completed process, with
\* any time argument, leaves completionTime and turnaroundTime as the first
\* call set them.
C15_CompleteIdempotent ==
  [][ (lastCall' = "complete" /\ proc[1].completionTime # Unset) =>
        /\ proc'[1].completionTime = proc[1].completionTime
        /\ proc'[1].turnaroundTime = proc[1].turnaroundTime ]_vars

\* C16: after any number of ticks every input process is in exactly one of:
\* not yet arrived (NEW), the READY queue, the running slot, the completed
\* list; no process is twice in the READY queue or in the completed list;
\* the running slot holds at most one process; getAllProcesses() returns
\* every input process exactly once.
C16_Partition ==
  LET new     == { p \in Ids : proc[p].state = "NEW" }
      queued  == Range(readyQueue)
      running == IF currentProcess = Null THEN {} ELSE {currentProcess}
      done    == Range(completed)
  IN /\ Ids = new \cup queued \cup running \cup done
     /\ new \cap queued = {} /\ new \cap running = {} /\ new \cap done = {}
     /\ queued \cap running = {} /\ queued \cap done = {}
     /\ running \cap done = {}
     /\ Cardinality(queued) = Len(readyQueue)
     /\ Cardinality(done) = Len(completed)
     /\ Len(getAllProcesses) = Len(processes)
     /\ Range(getAllProcesses) = Range(processes)
     /\ Range(processes) = Ids

\* all four places are occupied at once, after a preemption or a completion
C16_Witness ==
  /\ time > 0 /\ currentProcess # Null
  /\ Len(readyQueue) > 0 /\ Len(completed) > 0
  /\ \E p \in Ids : proc[p].state = "NEW"

\* the processes of queue q that the policy's selection rule may pick
Eligible(q) ==
  { d \in Range(q) :
      CASE policy \in {"SJF", "SRTF"} ->
             \A o \in Range(q) :
               \/ proc[d].remainingTime < proc[o].remainingTime
               \/ /\ proc[d].remainingTime = proc[o].remainingTime
                  /\ proc[d].arrivalTime <= proc[o].arrivalTime
        [] policy \in {"PRIORITY", "PRIORITY_P"} ->
             \A o \in Range(q) :
               \/ proc[d].priority < proc[o].priority
               \/ /\ proc[d].priority = proc[o].priority
                  /\ proc[d].arrivalTime <= proc[o].arrivalTime
        [] policy = "RANDOM" -> TRUE
        [] OTHER -> d = q[1] }

\* a tick of one of the policies in `among` in which the running process
\* completed while the READY queue was non-empty ends with the policy's
\* successor in the running slot, in state RUNNING
SuccessorDispatched(among) ==
  ( /\ policy \in among /\ time' = time + 1
    /\ Len(completed') = Len(completed) + 1
    /\ Len(queueAtExec') > 0 ) =>
       /\ currentProcess' # Null
       /\ proc'[currentProcess'].state = "RUNNING"
       /\ currentProcess' \in Eligible(queueAtExec')

\* C17: for every policy, at the end of any tick in which the running
\* process completes while the READY queue is non-empty, the running slot
\* holds the successor chosen by the policy's selection rule, in state
\* RUNNING.
C17_SuccessorEveryPolicy == [][ SuccessorDispatched(Policies) ]_vars

\* C18: wait accrual is the last step of a tick, after execution, completion
\* handling and redispatch; so a process moved from the READY queue into the
\* running slot during a tick (at its start or as successor after a
\* completion) accrues no waiting time in that tick.
C18_NoWaitWhenDispatched ==
  [][ time' = time + 1 =>
        \A k \in 1..Len(dispatched') :
          proc'[dispatched'[k]].waitingTime = proc[dispatched'[k]].waitingTime ]_vars

\* C19: for every policy and every process with burstTime >= 1, at
\* completion turnaroundTime = waitingTime + burstTime: every tick between
\* arrival and completion is counted once, as waiting or as executing.
C19_TurnaroundIdentity ==
  \A p \in Ids :
    (proc[p].completionTime # Unset /\ proc[p].burstTime >= 1) =>
       proc[p].turnaroundTime = proc[p].waitingTime + proc[p].burstTime

\* remainingTime of every process stays within 0..burstTime
RemainingInRange ==
  \A p \in Ids : 0 <= proc[p].remainingTime
                 /\ proc[p].remainingTime <= proc[p].burstTime

\* remainingTime of no process grows in a step
RemainingNeverIncreases ==
  \A p \in Ids : proc'[p].remainingTime <= proc[p].remainingTime

\* C20 (as stated): in every reachable state of every policy and for every
\* process with burstTime >= 0: 0 <= remainingTime <= burstTime,
\* remainingTime never increases, and the state is TERMINATED if and only if
\* remainingTime is 0.
C20_TerminatedIffZero ==
  /\ [](/\ RemainingInRange
        /\ \A p \in Ids :
             proc[p].state = "TERMINATED" <=> proc[p].remainingTime = 0)
  /\ [][RemainingNeverIncreases]_vars

\* C20 (amended): in every reachable state of every policy and for every
\* process: 0 <= remainingTime <= burstTime, remainingTime never increases,
\* a TERMINATED process has remainingTime 0, and a process with
\* burstTime >= 1 is TERMINATED if and only if its remainingTime is 0; a
\* process with burstTime 0 has remainingTime 0 from its creation and is
\* TERMINATED only once it has been dispatched and executed.
C20_RemainingTime ==
  /\ [](/\ RemainingInRange
        /\ \A p \in Ids :
             /\ proc[p].state = "TERMINATED" => proc[p].remainingTime = 0
             /\ proc[p].burstTime >= 1 =>
                  (proc[p].state = "TERMINATED" <=> proc[p].remainingTime = 0)
             /\ (proc[p].burstTime = 0 /\ proc[p].state = "TERMINATED") =>
                  ~proc[p].firstRun /\ proc[p].completionTime # Unset)
  /\ [][RemainingNeverIncreases]_vars

\* one process has run down to 0 and is TERMINATED while a zero-burst
\* process, whose remainingTime is 0 too, is still READY or RUNNING
C20_Witness ==
  /\ \E p \in Ids : /\ proc[p].burstTime >= 1
                    /\ proc[p].state = "TERMINATED"
                    /\ proc[p].remainingTime = 0
  /\ \E q \in Ids : /\ proc[q].burstTime = 0
                    /\ proc[q].state \in {"READY", "RUNNING"}

\* the state changes of the state machine
LegalTransitions ==
  { << "NEW", "READY" >>, << "READY", "RUNNING" >>,
    << "RUNNING", "READY" >>, << "RUNNING", "TERMINATED" >> }

\* C21: during any run of any policy every change of a process's state is
\* one of NEW->READY, READY->RUNNING, RUNNING->READY, RUNNING->TERMINATED;
\* no process ever enters WAITING, and a TERMINATED process never changes
\* state again.
C21_Transitions ==
  /\ \A k \in 1..Len(trace) :
       /\ << trace[k].from, trace[k].to >> \in LegalTransitions
       /\ trace[k].from # "TERMINATED" /\ trace[k].to # "WAITING"
  /\ \A p \in Ids : proc[p].state # "WAITING"

\* one tick in which a process arrived, the running one was sent back to
\* READY and another one entered RUNNING and terminated
C21_Witness ==
  /\ \E k \in 1..Len(trace) : trace[k].from = "NEW"
  /\ \E k \in 1..Len(trace) : trace[k].from = "RUNNING" /\ trace[k].to = "READY"
  /\ \E k \in 1..Len(trace) : trace[k].from = "READY" /\ trace[k].to = "RUNNING"
  /\ \E k \in 1..Len(trace) : trace[k].to = "TERMINATED"

\* process p has executed at least once
HasExecuted(p) ==
  proc[p].remainingTime < proc[p].burstTime \/ proc[p].state = "TERMINATED"

\* C22: for every policy, responseTime is unset until the process first
\* executes; it is then set once, to the waitingTime the process had
\* accumulated before its first entry into RUNNING, and never changes
\* afterwards, even if the process is preempted and waits again.
C22_ResponseTime ==
  /\ [](\A p \in Ids :
          /\ proc[p].responseTime = Unset <=> ~HasExecuted(p)
          /\ proc[p].responseTime # Unset =>
               proc[p].responseTime = entryWait[p])
  /\ [][\A p \in Ids : proc[p].responseTime # Unset =>
                          proc'[p].responseTime = proc[p].responseTime]_vars

\* a process that waited before its first run was sent back to READY later
\* and waited again
C22_Witness ==
  \E p \in Ids : /\ proc[p].responseTime >= 1
                 /\ proc[p].responseTime = entryWait[p]
                 /\ proc[p].waitingTime > proc[p].responseTime

\* the number of times process p changed into RUNNING in the tick just taken
EntriesIntoRunning(p) ==
  Cardinality({ k \in 1..Len(trace') :
                  trace'[k].id = p /\ trace'[k].to = "RUNNING" })

\* in a tick of one of the policies in `among`, every change of a process
\* into RUNNING appends the current time to its runningTimestamps
TimestampsLogged(among) ==
  (policy \in among /\ time' = time + 1) =>
     \A p \in Ids :
       proc'[p].runningTimestamps =
         proc[p].runningTimestamps
           \o [ i \in 1..EntriesIntoRunning(p) |-> time' ]

\* C23: for every policy, each time a process transitions into RUNNING the
\* current simulated time is appended to its running-timestamp log, so the
\* length of the log equals the number of times the process was dispatched.
C23_TimestampLog == [][ TimestampsLogged(Policies) ]_vars

\* the positions of `trace` at which a process changed into RUNNING
RunningEntries == { k \in 1..Len(trace) : trace[k].to = "RUNNING" }

C25_UnknownIsFCFS ==
  /\ [](policy \notin Policies =>
          /\ processes = sortByArrival(proc, [ i \in 1..Len(processes) |-> i ])
          /\ time = 0 => /\ readyQueue = << >> /\ currentProcess = Null
                         /\ completed = << >>)
  /\ [][ (policy \notin Policies /\ time' = time + 1) =>
           LET t == tickFCFS(Self)
           IN /\ proc' = t.proc
              /\ readyQueue' = t.readyQueue
              /\ currentProcess' = t.currentProcess
              /\ completed' = t.completed
              /\ time' = t.time
              /\ allCompleted' = tickReturns(t) ]_vars

\* a scheduler built for an unknown identifier ran two processes to the end
\* in arrival order, which is not their input order
C25_Witness ==
  /\ policy \notin Policies /\ returned /\ Len(result) = 2
  /\ result = << 2, 1 >> /\ processes = << 2, 1 >>

\* a scheduler without its timeQuantum
WithoutQuantum(s) == [ s EXCEPT !.timeQuantum = Unset ]

\* C26: config.timeQuantum influences only Round Robin: for each of the six
\* other policies the scheduler built keeps nothing of it and every tick
\* leads to the same states whatever the quantum, so two runs differing only
\* in timeQuantum go through identical states; for Round Robin a missing
\* timeQuantum means quantum 2.
C26_QuantumOnlyRR ==
  /\ schedulerClass(policy) # "RR" =>
       /\ timeQuantum = Unset
       /\ timeSliceRemaining = 0
       /\ \A q \in 1..MaxQuantum :
            { WithoutQuantum(t) : t \in Ticks([ Self EXCEPT !.timeQuantum = q ]) }
              = { WithoutQuantum(t) : t \in Ticks(Self) }
  /\ schedulerClass(policy) = "RR" =>
       timeQuantum = IF configQuantum = Unset \/ configQuantum = 0 THEN 2 ELSE configQuantum

\* a run of one of the six other policies that was handed a timeQuantum has
\* completed a process
C26_Witness ==
  /\ schedulerClass(policy) # "RR" /\ configQuantum \in 1..MaxQuantum
  /\ returned /\ Len(result) = 1

\* a Round Robin run without a timeQuantum has completed a process
C26_WitnessDefault ==
  /\ schedulerClass(policy) = "RR" /\ configQuantum = Unset /\ timeQuantum = 2
  /\ returned /\ Len(result) = 1

\* a request the validation is documented to refuse
Malformed(r) ==
  \/ r.algorithm = "" \/ toUpperCase(r.algorithm) \notin Policies
  \/ r.shape # "array"
  \/ \E i \in 1..Len(r.processes) :
       r.processes[i].burstTime < 0 \/ r.processes[i].arrivalTime < 0

Rejected ==
  /\ policy = "" /\ ticks = 0 /\ ~simulation.active
  /\ Len(emitted) = 1 /\ emitted[1].event \in {"400", "simulation-error"}

\* C27: a batch or interactive request whose algorithm is missing or
\* unsupported, whose process list is missing or not a list, or one of whose
\* process specs carries a negative burstTime or arrivalTime, is rejected: no
\* scheduler is constructed and no tick runs.
C27_MalformedRejected == Malformed(request) => Rejected

Statistics == {"200", "simulation-step", "simulation-completed"}

\* C28: whenever no process has completed, the three averages of the batch
\* response and of every interactive message are 0.
C28_ZeroAverages ==
  \A k \in 1..Len(emitted) :
    (emitted[k].event \in Statistics /\ emitted[k].completedProcesses = 0) =>
      /\ emitted[k].avgWaitingTime = number(0)
      /\ emitted[k].avgTurnaroundTime = number(0)
      /\ emitted[k].avgResponseTime = number(0)

\* CPU time consumed so far by every process
Consumed ==
  SumOver([ p \in Ids |-> proc[p].burstTime - proc[p].remainingTime ], Len(proc))

\* C29: in every interactive snapshot with detailed metrics and in the
\* completion event, cpuIdleTime is the current time minus the sum over every
\* process of (burstTime - remainingTime).
C29_CpuIdleTime ==
  \A k \in 1..Len(emitted) :
    emitted[k].cpuIdleTime.kind = "number" =>
      emitted[k].cpuIdleTime.value = time - Consumed

\* C30: time starts at 0 and every tick() call increases it by exactly 1,
\* under every policy and also once every process has completed: after n
\* calls getCurrentTime() is n.
C30_TimeCountsTicks == time = ticks

\* tick() was called on a scheduler all of whose processes had completed
C30_Witness ==
  /\ ticks >= 2 /\ Len(processes) > 0
  /\ \A p \in Ids : proc[p].state = "TERMINATED" /\ proc[p].completionTime < time

\* C31: runSimulation(maxIterations) always returns: each iteration is one
\* tick() call and raises the iteration count, which never passes
\* maxIterations; no tick() follows the first one that returned true; the
\* loop is left exactly when a tick returned true or the cap is reached, and
\* the value returned is the completed list at that moment.
C31_RunSimulation ==
  /\ [](/\ iterations <= MaxIterations
        /\ iterations = ticks
        /\ iterations > 0 => (allCompleted <=> Len(completed) = Len(processes))
        /\ returned => /\ result = completed
                       /\ allCompleted \/ iterations = MaxIterations)
  /\ [][ /\ allCompleted => ticks' = ticks
         /\ returned => ticks' = ticks /\ result' = result
         /\ ~returned =>
              \/ ~returned' /\ ticks' = ticks + 1 /\ iterations' = iterations + 1
              \/ returned' /\ ticks' = ticks /\ result' = completed ]_vars

\* runSimulation returned at the cap with a strict subset of the processes
C31_Witness ==
  /\ returned /\ ~allCompleted /\ iterations = MaxIterations
  /\ Len(result) < Len(processes) /\ Len(result) > 0

\* runSimulation returned after the tick that returned true, below the cap
C31_WitnessCompleted ==
  /\ returned /\ allCompleted /\ iterations < MaxIterations
  /\ Len(result) = Len(processes) /\ Len(result) > 0

\* the state field of every process agrees with the container holding it
InContainer ==
  /\ currentProcess # Null => proc[currentProcess].state = "RUNNING"
  /\ \A k \in 1..Len(readyQueue) : proc[readyQueue[k]].state = "READY"
  /\ \A k \in 1..Len(completed) : proc[completed[k]].state = "TERMINATED"
  /\ \A p \in Ids :
       (p # currentProcess /\ p \notin Range(readyQueue) /\ p \notin Range(completed))
         => proc[p].state = "NEW"

\* C34: at the end of every tick of every policy the process in the running
\* slot has state RUNNING, every process in the READY queue has state READY,
\* every process in the completed list has state TERMINATED, and every other
\* process has state NEW.
C34_StateMatchesContainer == InContainer

\* after the arrival check of the tick now starting, some process is in the
\* READY queue or in the running slot
Available ==
  \/ currentProcess # Null
  \/ Len(readyQueue) > 0
  \/ \E p \in Ids : proc[p].state = "NEW" /\ proc[p].arrivalTime <= time + 1

\* process p executed in the step: its remainingTime went down by 1, or it
\* terminated with burst 0
Executed(p) ==
  \/ proc'[p].remainingTime = proc[p].remainingTime - 1
  \/ /\ proc[p].burstTime = 0
     /\ proc[p].state # "TERMINATED" /\ proc'[p].state = "TERMINATED"

\* C35: for every policy, in every tick in which, after the arrival check,
\* some process is in the READY queue or in the running slot, exactly one
\* process executes: the CPU is never idle while a process is available.
C35_NeverIdle ==
  [][ (time' = time + 1 /\ Available) =>
        Cardinality({ p \in Ids : Executed(p) }) = 1 ]_vars

\* max(arrivalTime) + sum over the processes of max(burstTime, 1)
CompletionBound ==
  LET latest == CHOOSE a \in { proc[p].arrivalTime : p \in Ids } :
                  \A p \in Ids : proc[p].arrivalTime <= a
  IN latest + SumOver([ p \in Ids |-> Max(proc[p].burstTime, 1) ], Len(processes))

\* C36: for FCFS, SJF, SRTF, PRIORITY, PRIORITY_P and RANDOM (whatever the
\* random picks) and every non-empty process set, tick() first returns true
\* at a time no later than max(arrivalTime) + sum of max(burstTime, 1): the
\* run never passes that time, and it ends by a tick that returned true.
C36_CompletionBound ==
  (schedulerClass(policy) # "RR" /\ Len(processes) > 0) =>
    /\ time <= CompletionBound
    /\ time = CompletionBound => allCompleted
    /\ returned => allCompleted

\* a run of two processes whose last tick returned true exactly at the bound
C36_Witness ==
  /\ schedulerClass(policy) # "RR" /\ Len(processes) = 2
  /\ allCompleted /\ time = CompletionBound

\* C37: in every reachable state of every policy at most one process's
\* remainingTime decreases per tick and the CPU time consumed, summed over
\* all processes, is at most the current time; hence the burst times of the
\* completed processes sum to at most the elapsed time and the cpuUtilization
\* reported over them is at most 100.
C37_CpuTimeBound ==
  /\ [](/\ CpuConsumed <= time
        /\ reduce(Self, completed, "burstTime", 1) <= time
        /\ Len(completed) > 0 =>
             /\ cpuUtilization(Self, completed).kind = "number"
             /\ cpuUtilization(Self, completed).value <= 100 * 100)
  /\ [][ Cardinality({ p \in Ids :
           proc'[p].remainingTime < proc[p].remainingTime }) <= 1 ]_vars

\* two processes have consumed CPU time, every tick so far was used, and
\* the utilization reported over the completed one is below 100
C37_Witness ==
  /\ Cardinality({ p \in Ids : proc[p].remainingTime < proc[p].burstTime }) = 2
  /\ CpuConsumed = time
  /\ Len(completed) = 1
  /\ cpuUtilization(Self, completed).value < 100 * 100

\* the step is a tick() call of the session's scheduler
TickTaken == ticks' = ticks + 1

\* the step is the first tick() call of the scheduler that returns true
FinishingTick ==
  /\ TickTaken
  /\ Len(completed') = Len(processes)
  /\ ~(ticks > 0 /\ Len(completed) = Len(processes))

\* C32: in an interactive session an initial snapshot is emitted, then one
\* snapshot per tick, and the tick that finishes the simulation emits
\* exactly one completion event and removes the session, also after a
\* change of the step cadence.
C32_SnapshotsAndCompletion ==
  /\ [](handled = "start-simulation" /\ simulation.active =>
          /\ Len(emitted) = 1
          /\ emitted[1].event = "simulation-step" /\ emitted[1].currentTime = 0)
  /\ [][ /\ TickTaken =>
              /\ Len(emitted') >= 1
              /\ emitted'[1].event = "simulation-step"
              /\ emitted'[1].currentTime = time'
         /\ FinishingTick =>
              /\ Len(emitted') = 2
              /\ emitted'[2].event = "simulation-completed"
              /\ ~simulation'.active
         /\ (TickTaken /\ ~FinishingTick) => Len(emitted') = 1 ]_vars

\* C33: while the session is paused no timer firing invokes tick(): the
\* scheduler's time and process states change only through step requests;
\* once resumed, every timer firing invokes tick() exactly once.
C33_PausedTimers ==
  [][ /\ (simulation.active /\ simulation.paused /\ handled' = "interval") =>
           /\ ticks' = ticks /\ time' = time /\ proc' = proc
           /\ readyQueue' = readyQueue /\ currentProcess' = currentProcess
           /\ completed' = completed
      /\ (simulation.active /\ simulation.paused
            /\ (ticks' # ticks \/ time' # time \/ proc' # proc)) =>
           handled' \in {"step-simulation", "start-simulation"}
      /\ (simulation.active /\ ~simulation.paused /\ handled' = "interval") =>
           ticks' = ticks + 1 /\ time' = time + 1 ]_vars

\* a timer fired while the session was paused, after a tick had been taken
C33_Witness ==
  /\ simulation.active /\ simulation.paused
  /\ handled = "interval" /\ ticks > 0

\* a timer fired and ticked after the session had been paused and resumed
C33_WitnessResumed ==
  /\ handled = "interval" /\ ticks > 0 /\ emitted # << >>
  /\ simulation.active /\ ~simulation.paused

ActiveTimers == timers.start + timers.speed

\* C38: a client has at most one active repeating timer at any time, also
\* when it sends a start request while its simulation is running or after a
\* cadence change; after completion, reset or disconnect none is active.
C38_OneTimer ==
  /\ ActiveTimers <= 1
  /\ ~simulation.active => ActiveTimers = 0

\* C39: under any interleaving of timer firings and step requests tick() is
\* never invoked on a scheduler one of whose tick() calls has returned true,
\* so the total time of the completion event is the time at which the last
\* process completed.
C39_NoTickAfterCompletion ==
  /\ [](\A k \in 1..Len(emitted) :
          (emitted[k].event = "simulation-completed" /\ Len(processes) > 0) =>
            \E p \in Ids : /\ proc[p].completionTime = emitted[k].currentTime
                           /\ \A q \in Ids : proc[q].completionTime <= proc[p].completionTime)
  /\ [][ (ticks > 0 /\ Len(completed) = Len(processes)) => ~TickTaken ]_vars

====
